---- MODULE Spec2Model ----
(***************************************************************************)
(* Model of the Acme Data Room frontend: the API client (lib/api.ts), the  *)
(* Drive file picker (components/DriveFilePicker.tsx), the file card       *)
(* (components/FileCard.tsx) and the root component (App.tsx).             *)
(*                                                                         *)
(* Three specifications share the variables:                               *)
(*   SpecApi   one call of an API client function at a time, against every *)
(*             answer the network can give;                                *)
(*   Spec      the picker: Drive listing, pagination, search, selection,   *)
(*             import batches, and the root opening and closing the modal; *)
(*   SpecRoot  the root: the authentication check on mount, the file list  *)
(*             and its search, login, logout, the delete of a file card,   *)
(*             and the picker as the root sees it.                         *)
(***************************************************************************)
EXTENDS Integers, Sequences, FiniteSets, TLC

VARIABLES
    \* ---- API client (SpecApi) ----
    api,            \* the call in progress: [pc, fn, arg, req, res, out]
    \* ---- root component ----
    showPicker,     \* App.tsx:35  modal state for the Drive picker
    \* ---- DriveFilePicker state of the mounted instance ----
    files,          \* DriveFilePicker.tsx:33  ids of the Drive files of the page held
    loading,        \* DriveFilePicker.tsx:34
    searchQuery,    \* DriveFilePicker.tsx:37
    selectedFiles,  \* DriveFilePicker.tsx:40
    importing,      \* DriveFilePicker.tsx:43
    nextPageToken,  \* DriveFilePicker.tsx:46
    prevTokens,     \* DriveFilePicker.tsx:47
    \* ---- asynchronous work ----
    driveReqs,      \* Drive list requests of the mounted instance awaiting an answer
    overtaken,      \* how many of them, the oldest ones, were issued before a request
                    \* that has already been answered with a page
    batches,        \* the handleImport runs awaiting an import call, in start order
    finished,       \* the handleImport or handleDelete run that ended in the last step, if any
    \* ---- observation of the last step (history variables) ----
    shown,          \* the request whose answer the page held comes from
    nav,            \* the navigation under way, with the state it started from
    lastOp,         \* the handler or continuation that ran last, with its argument
    lastIssued,     \* the list requests issued by that step
    \* ---- root component state (SpecRoot) ----
    authenticated,  \* App.tsx:25  "null", "true", "false" or Undefined
    rootFiles,      \* App.tsx:28  the data room files held: [defined, ids]
    rootLoading,    \* App.tsx:29
    rootSearchQuery,\* App.tsx:32
    page,           \* the document: "app" while the application is rendered
    \* ---- asynchronous work of the root and its file cards ----
    authCall,       \* the getAuthStatus call of checkAuth awaits its answer
    listCalls,      \* fetchFiles runs awaiting their list or search request
    logoutCalls,    \* number of handleLogout runs awaiting api.logout
    loginCalls,     \* number of handleLogin runs awaiting api.getAuthUrl
    deletes,        \* the handleDelete runs awaiting api.deleteFile
    imports,        \* the handleImport runs under way, as the fetchFiles each holds as onImport
    sinceMount      \* [acted, issued]: has the user acted since the mount, and the
                    \* number of list requests issued before they did

vars == << api, showPicker, files, loading, searchQuery, selectedFiles, importing,
           nextPageToken, prevTokens, driveReqs, overtaken, batches, finished, shown,
           nav, lastOp, lastIssued, authenticated, rootFiles, rootLoading,
           rootSearchQuery, page, authCall, listCalls, logoutCalls, loginCalls,
           deletes, imports, sinceMount >>

apiVars == << api >>

rootVars == << authenticated, rootFiles, rootLoading, rootSearchQuery, page,
               authCall, listCalls, logoutCalls, loginCalls, deletes, imports,
               sinceMount >>

pickerVars == << showPicker, files, loading, searchQuery, selectedFiles, importing,
                 nextPageToken, prevTokens, driveReqs, overtaken, batches, finished,
                 shown, nav, lastOp, lastIssued >>

(***************************************************************************)
(* Bounds of the model.                                                    *)
(***************************************************************************)
\* Requests in flight at the same time: the Drive list requests of the mounted
\* picker and the import calls awaited by the running batches.
MaxInFlight == 2
\* Length of the history stack prevTokens.
MaxHistory == 2

(***************************************************************************)
(* JavaScript values.                                                      *)
(***************************************************************************)
\* The value `undefined` of an optional string.
Undefined == "undefined"

\* Truthiness of an optional string: undefined and '' are falsy.
Truthy(s) == s # Undefined /\ s # ""

\* a || b on optional strings.
OrElse(a, b) == IF Truthy(a) THEN a ELSE b

Last(s) == s[Len(s)]

Front(s) == SubSeq(s, 1, Len(s) - 1)

Range(s) == { s[i] : i \in 1..Len(s) }

\* s without its i-th element.
RemoveAt(s, i) == SubSeq(s, 1, i - 1) \o SubSeq(s, i + 1, Len(s))

(***************************************************************************)
(* The network: what one fetch() can give.                                 *)
(*   kind "neterr"  fetch rejects (no response);                           *)
(*   kind "http"    a response: ok is res.ok (status 2xx), body says       *)
(*                  whether the body parses as JSON and, if so, whether it *)
(*                  has a non-empty `error` field.                         *)
(***************************************************************************)
NetError == [kind |-> "neterr", ok |-> FALSE, body |-> "none"]

HttpResponses == [kind : {"http"}, ok : BOOLEAN, body : {"json", "jsonError", "text"}]

Responses == {NetError} \cup HttpResponses

Returned(v) == [kind |-> "returned", value |-> v]

Thrown(m) == [kind |-> "thrown", value |-> m]

\* res.json(): the decoded body, or a SyntaxError rejection.
ResJson(res) == IF res.body = "text" THEN Thrown("SyntaxError") ELSE Returned(res.body)

\* The `error` field of a decoded error body ('' / undefined when absent).
ErrorField(res) == IF res.body = "jsonError" THEN "E" ELSE Undefined

ApiFunctions == { "getAuthStatus", "getAuthUrl", "logout", "listDriveFiles",
                  "importFile", "listFiles", "searchFiles", "deleteFile" }

\* api.getAuthStatus, api.getAuthUrl, api.listFiles, api.searchFiles:
\*   const res = await fetch(...); return res.json()
PlainJsonResult(res) ==
    IF res.kind = "neterr" THEN Thrown("TypeError") ELSE ResJson(res)

\* api.logout: await fetch(..., { method: 'POST' })
LogoutResult(res) ==
    IF res.kind = "neterr" THEN Thrown("TypeError") ELSE Returned("void")

\* api.listDriveFiles: if (!res.ok) throw ...; return res.json()
ListDriveFilesResult(res) ==
    IF res.kind = "neterr" THEN Thrown("TypeError")
    ELSE IF ~res.ok THEN Thrown("Failed to fetch drive files")
    ELSE ResJson(res)

\* api.importFile: if (!res.ok) { const error = await res.json();
\*   throw new Error(error.error || 'Failed to import file') }; return res.json()
ImportFileResult(res) ==
    IF res.kind = "neterr" THEN Thrown("TypeError")
    ELSE IF ~res.ok
         THEN IF ResJson(res).kind = "thrown" THEN ResJson(res)
              ELSE Thrown(OrElse(ErrorField(res), "Failed to import file"))
    ELSE ResJson(res)

\* api.deleteFile: if (!res.ok) throw new Error('Failed to delete file')
DeleteFileResult(res) ==
    IF res.kind = "neterr" THEN Thrown("TypeError")
    ELSE IF ~res.ok THEN Thrown("Failed to delete file")
    ELSE Returned("void")

\* What the call of API function fn gives its caller when the network gives res.
ApiResult(fn, res) ==
    CASE fn \in {"getAuthStatus", "getAuthUrl", "listFiles", "searchFiles"} ->
            PlainJsonResult(res)
      [] fn = "logout" -> LogoutResult(res)
      [] fn = "listDriveFiles" -> ListDriveFilesResult(res)
      [] fn = "importFile" -> ImportFileResult(res)
      [] fn = "deleteFile" -> DeleteFileResult(res)

(***************************************************************************)
(* The HTTP request each API function issues.                              *)
(***************************************************************************)
API_BASE == "/api"

\* encodeURIComponent on the search texts of the model.
EncodeURIComponent(q) ==
    CASE q = "a b" -> "a%20b"
      [] q = "a&b" -> "a%26b"
      [] OTHER -> q

\* new URLSearchParams() with the two conditional set() calls of listDriveFiles.
DriveParams(pageToken, query) ==
    [pageToken |-> IF Truthy(pageToken) THEN pageToken ELSE Undefined,
     query |-> IF Truthy(query) THEN query ELSE Undefined]

NoArg == [id |-> 0, pageToken |-> Undefined, query |-> Undefined]

ApiArgs(fn) ==
    CASE fn = "listDriveFiles" ->
            { [NoArg EXCEPT !.pageToken = t, !.query = q] :
                  t \in {Undefined, "", "a1"}, q \in {Undefined, "", "q"} }
      [] fn = "importFile" -> { [NoArg EXCEPT !.id = i] : i \in {1, 2} }
      [] fn = "searchFiles" -> { [NoArg EXCEPT !.query = q] : q \in {"q", "a b", "a&b"} }
      [] fn = "deleteFile" -> { [NoArg EXCEPT !.id = i] : i \in {7, 42} }
      [] OTHER -> {NoArg}

ApiRequest(fn, arg) ==
    CASE fn = "getAuthStatus" ->
            [method |-> "GET", path |-> <<API_BASE, "auth", "status">>, params |-> NoArg]
      [] fn = "getAuthUrl" ->
            [method |-> "GET", path |-> <<API_BASE, "auth", "login">>, params |-> NoArg]
      [] fn = "logout" ->
            [method |-> "POST", path |-> <<API_BASE, "auth", "logout">>, params |-> NoArg]
      [] fn = "listDriveFiles" ->
            [method |-> "GET", path |-> <<API_BASE, "drive", "files">>,
             params |-> [NoArg EXCEPT !.pageToken = DriveParams(arg.pageToken, arg.query).pageToken,
                                      !.query = DriveParams(arg.pageToken, arg.query).query]]
      [] fn = "importFile" ->
            [method |-> "POST", path |-> <<API_BASE, "drive", "import">>,
             params |-> [NoArg EXCEPT !.id = arg.id]]
      [] fn = "listFiles" ->
            [method |-> "GET", path |-> <<API_BASE, "files">>, params |-> NoArg]
      [] fn = "searchFiles" ->
            [method |-> "GET", path |-> <<API_BASE, "files", "search">>,
             params |-> [NoArg EXCEPT !.query = EncodeURIComponent(arg.query)]]
      [] fn = "deleteFile" ->
            [method |-> "DELETE", path |-> <<API_BASE, "files">>,
             params |-> [NoArg EXCEPT !.id = arg.id]]

(***************************************************************************)
(* SpecApi: one API client call at a time.                                 *)
(***************************************************************************)
ApiIdle ==
    [pc |-> "idle", fn |-> "none", arg |-> NoArg,
     req |-> [method |-> "none", path |-> <<>>, params |-> NoArg],
     res |-> NetError, out |-> Returned("none")]

\* A caller invokes api.<fn>(arg): the function runs up to its `await fetch(...)`.
ApiCall(fn, arg) ==
    /\ api.pc = "idle"
    /\ api' = [ApiIdle EXCEPT !.pc = "fetching", !.fn = fn, !.arg = arg,
                              !.req = ApiRequest(fn, arg)]
    /\ UNCHANGED << pickerVars, rootVars >>

\* The fetch settles with res and the function runs to its return or throw.
ApiSettle(res) ==
    /\ api.pc = "fetching"
    /\ api' = [api EXCEPT !.pc = "done", !.res = res, !.out = ApiResult(api.fn, res)]
    /\ UNCHANGED << pickerVars, rootVars >>

\* The caller has taken the result.
ApiTaken ==
    /\ api.pc = "done"
    /\ api' = ApiIdle
    /\ UNCHANGED << pickerVars, rootVars >>

(***************************************************************************)
(* The backend's Drive listing, as the picker sees it through              *)
(* DriveListResponse {files, nextPageToken?}.  Drive holds files 1, 2 and  *)
(* folder 9; the listing without query has three pages, the listing for    *)
(* query "q" has one.  A page token is an opaque string that names one     *)
(* page of one listing.                                                    *)
(***************************************************************************)
FolderMime == "application/vnd.google-apps.folder"

MimeType(f) == IF f = 9 THEN FolderMime ELSE "application/pdf"

\* isFolder of the picker, on a file id.
IsFolder(f) == MimeType(f) = FolderMime

\* The texts the user types into the picker's search box.
SearchTexts == {"", "q"}

DriveFileIds == {1, 2}

NoPage == [valid |-> FALSE, files |-> <<>>, nextPageToken |-> Undefined]

DriveListing(query) ==
    IF query = Undefined
    THEN << [valid |-> TRUE, files |-> <<1>>, nextPageToken |-> "a1"],
            [valid |-> TRUE, files |-> <<2>>, nextPageToken |-> "a2"],
            [valid |-> TRUE, files |-> <<9>>, nextPageToken |-> Undefined] >>
    ELSE << [valid |-> TRUE, files |-> <<1, 9, 2>>, nextPageToken |-> Undefined] >>

PageTokens == {"a1", "a2"}

\* The listing and the page a token names.
TokenQuery(t) == Undefined

TokenIndex(t) == IF t = "a2" THEN 3 ELSE 2

\* The page the backend answers with to GET /drive/files?pageToken&query; a token
\* presented with another query than the one it was issued under is refused.
DriveAnswer(params) ==
    IF params.pageToken = Undefined THEN DriveListing(params.query)[1]
    ELSE IF TokenQuery(params.pageToken) = params.query
         THEN DriveListing(params.query)[TokenIndex(params.pageToken)]
         ELSE NoPage

\* What the network can give to a Drive list request (its params): a 2xx answer carries the
\* page (or a body that does not parse); anything else is a failure.
DriveResponses(req) ==
    { r \in Responses :
        r.ok => /\ DriveAnswer(req).valid
                /\ r.body # "jsonError" }

(***************************************************************************)
(* Picker state.                                                           *)
(***************************************************************************)
DriveReq(pageToken, query) == [pageToken |-> pageToken, query |-> query]

NoneShown == [any |-> FALSE, pageToken |-> Undefined, query |-> Undefined]

\* nav: stage "search" right after handleSearch; "next" from a handleNextPage on,
\* through the answers to list requests, until another handler runs; "prev" right
\* after a handlePrevPage that follows such a handleNextPage.  left, depth and reqs
\* are the page shown, the length of prevTokens and the number of list requests in
\* flight when the first handler of the navigation ran; done says that the list
\* request of the handleNextPage has been answered with a page.
NavIdle == [stage |-> "idle", left |-> NoneShown, depth |-> 0, reqs |-> 0,
            done |-> FALSE]

NavStart(stage) ==
    [stage |-> stage, left |-> shown, depth |-> Len(prevTokens),
     reqs |-> Len(driveReqs), done |-> FALSE]

\* The useState initial values of DriveFilePicker (also the values of the model's
\* picker variables while no picker is mounted).
PickerInitial ==
    /\ files = <<>>
    /\ loading = TRUE
    /\ searchQuery = ""
    /\ selectedFiles = {}
    /\ importing = FALSE
    /\ nextPageToken = Undefined
    /\ prevTokens = <<>>

\* A batch: one run of handleImport past its early return.
\*   attached  its picker instance is still mounted
\*   files     filesToImport;  idx  the file whose import call is awaited
\*   trace     what the run has done so far, in order
NewBatch(filesToImport) ==
    [attached |-> TRUE, files |-> filesToImport, idx |-> 1, successCount |-> 0,
     errorCount |-> 0, pc |-> "await",
     trace |-> << <<"call", filesToImport[1]>> >>]

NoBatch ==
    [attached |-> FALSE, files |-> <<>>, idx |-> 0, successCount |-> 0,
     errorCount |-> 0, pc |-> "none", trace |-> <<>>]

\* Variant: the runs of an unmounted instance are dropped.
DetachedStopped(bs) == <<>>

Detached(bs) == [i \in 1..Len(bs) |-> [bs[i] EXCEPT !.attached = FALSE]]

(***************************************************************************)
(* Root state.                                                             *)
(***************************************************************************)
\* The `authenticated` state of the root: boolean | null, and undefined when the
\* body of the status answer has no such field.
AuthValues == {"null", "true", "false", Undefined}

\* if (authenticated) / !authenticated on such a value.
AuthTruthy(a) == a = "true"

\* The three render states of App.
Screen ==
    IF authenticated = "null" THEN "checking"
    ELSE IF ~AuthTruthy(authenticated) THEN "login"
    ELSE "main"

\* The texts the user types into the root's search box.
RootTexts == {"", "a b"}

\* The `files` state of the root: an array, by the ids of its files, or undefined
\* when the body of a list answer has no such field.
Files(list) == [defined |-> TRUE, ids |-> list]

UndefinedFiles == [defined |-> FALSE, ids |-> <<>>]

\* The file lists the backend answers GET /files and GET /files/search with.
FileLists == { <<>>, <<7>>, <<7, 42>> }

\* A handleDelete run past confirm().
\*   id        file.id of the card
\*   onDelete  the fetchFiles it holds as onDelete, as the searchQuery of that closure
\*   trace     what the run has done so far, in order
NewDelete(id) ==
    [id |-> id, onDelete |-> rootSearchQuery,
     trace |-> << <<"confirm", TRUE>>,
                  <<"call", ApiRequest("deleteFile", [NoArg EXCEPT !.id = id])>> >>]

\* A handleDelete run that returned at confirm().
DeclinedDelete(id) ==
    [id |-> id, onDelete |-> rootSearchQuery, trace |-> << <<"confirm", FALSE>> >>]

\* No user action yet, no list request yet.
JustMounted == [acted |-> FALSE, issued |-> 0]

\* The useState initial values of App and the mount effect: checkAuth() awaits
\* api.getAuthStatus().
RootMounted ==
    /\ authenticated = "null"
    /\ rootFiles = Files(<<>>)
    /\ rootLoading = TRUE
    /\ rootSearchQuery = ""
    /\ page = "app"
    /\ authCall = TRUE
    /\ listCalls = <<>>
    /\ logoutCalls = 0
    /\ loginCalls = 0
    /\ deletes = <<>>
    /\ imports = <<>>
    /\ sinceMount = JustMounted

\* The root on its main screen with nothing in flight: where the picker's
\* specification starts.
RootSignedIn ==
    /\ authenticated = "true"
    /\ rootFiles = Files(<<>>)
    /\ rootLoading = FALSE
    /\ rootSearchQuery = ""
    /\ page = "app"
    /\ authCall = FALSE
    /\ listCalls = <<>>
    /\ logoutCalls = 0
    /\ loginCalls = 0
    /\ deletes = <<>>
    /\ imports = <<>>
    /\ sinceMount = [acted |-> TRUE, issued |-> 1]

\* The picker closed and no API call under way.
PickerClosed ==
    /\ api = ApiIdle
    /\ showPicker = FALSE
    /\ PickerInitial
    /\ driveReqs = <<>>
    /\ overtaken = 0
    /\ batches = <<>>
    /\ finished = NoBatch
    /\ shown = NoneShown
    /\ nav = NavIdle
    /\ lastOp = <<"init">>
    /\ lastIssued = <<>>

Init == PickerClosed /\ RootSignedIn

InitRoot == PickerClosed /\ RootMounted

(***************************************************************************)
(* Picker: fetching, search, pagination, selection.                        *)
(***************************************************************************)
\* The requests in flight.
InFlight == Len(driveReqs) + Len(batches)

\* fetchFiles up to its await: setLoading(true) and the list request.  driveReqs
\* holds the request as sent (its URLSearchParams), lastIssued the arguments of
\* api.listDriveFiles.
FetchFiles(pageToken, query) ==
    /\ loading' = TRUE
    /\ driveReqs' = Append(driveReqs, DriveParams(pageToken, query))
    /\ UNCHANGED overtaken
    /\ lastIssued' = << DriveReq(pageToken, query) >>

\* Variant: the answer to a request is dropped when a request issued after it has
\* already been answered with a page.
PageAfterAnswerFenced(params, late) ==
    IF late THEN [files |-> files, nextPageToken |-> nextPageToken]
    ELSE [files |-> DriveAnswer(params).files,
          nextPageToken |-> DriveAnswer(params).nextPageToken]

\* fetchFiles after its await: setFiles(result.files || []) and
\* setNextPageToken(result.nextPageToken), whatever else has been answered.
PageAfterAnswer(params, late) ==
    [files |-> DriveAnswer(params).files,
     nextPageToken |-> DriveAnswer(params).nextPageToken]

\* The component is unmounted: its state is gone, the answers to its list requests
\* no longer reach any state, and its batches run on without it.
Unmount ==
    /\ files' = <<>>
    /\ loading' = TRUE
    /\ searchQuery' = ""
    /\ selectedFiles' = {}
    /\ importing' = FALSE
    /\ nextPageToken' = Undefined
    /\ prevTokens' = <<>>
    /\ driveReqs' = <<>>
    /\ overtaken' = 0
    /\ shown' = NoneShown
    /\ nav' = NavIdle

\* App: <Button onClick={() => setShowPicker(true)}>; the picker mounts with its
\* initial state and its mount effect calls fetchFiles().
OpenPicker ==
    /\ ~showPicker
    /\ InFlight < MaxInFlight
    /\ showPicker' = TRUE
    /\ FetchFiles(Undefined, Undefined)
    /\ lastOp' = <<"mount">>
    /\ UNCHANGED << api, rootVars, files, searchQuery, selectedFiles, importing, nextPageToken,
                    prevTokens, batches, shown, nav >>
    /\ finished' = NoBatch

\* The close button and Cancel: onClose, i.e. setShowPicker(false).
ClosePicker ==
    /\ showPicker
    /\ showPicker' = FALSE
    /\ Unmount
    /\ batches' = Detached(batches)
    /\ finished' = NoBatch
    /\ lastOp' = <<"onClose">>
    /\ lastIssued' = <<>>
    /\ UNCHANGED << api, rootVars >>

\* The search input's onChange: setSearchQuery(e.target.value).
SetSearchQuery(q) ==
    /\ showPicker
    /\ q # searchQuery
    /\ searchQuery' = q
    /\ nav' = NavIdle
    /\ lastOp' = <<"setSearchQuery">>
    /\ lastIssued' = <<>>
    /\ UNCHANGED << api, rootVars, showPicker, files, loading, selectedFiles, importing,
                    nextPageToken, prevTokens, driveReqs, overtaken, batches, shown >>
    /\ finished' = NoBatch

\* Variant: the history is not reset.
SearchHistoryKept == prevTokens

\* handleSearch: what setPrevTokens receives.
SearchHistory == <<>>

HandleSearch ==
    /\ showPicker
    /\ InFlight < MaxInFlight
    /\ prevTokens' = SearchHistory
    /\ FetchFiles(Undefined, searchQuery)
    /\ nav' = NavStart("search")
    /\ lastOp' = <<"handleSearch">>
    /\ finished' = NoBatch
    /\ UNCHANGED << api, rootVars, showPicker, files, searchQuery, selectedFiles, importing,
                    nextPageToken, batches, shown >>

\* Variant: the token of the page being fetched is pushed.
NextHistoryOfNextToken == Append(prevTokens, nextPageToken)

\* handleNextPage: what setPrevTokens receives.
NextHistory == Append(prevTokens, "")

HandleNextPage ==
    /\ showPicker
    /\ Truthy(nextPageToken)
    /\ InFlight < MaxInFlight
    /\ Len(prevTokens) < MaxHistory
    /\ prevTokens' = NextHistory
    /\ FetchFiles(nextPageToken, searchQuery)
    /\ nav' = NavStart("next")
    /\ lastOp' = <<"handleNextPage">>
    /\ finished' = NoBatch
    /\ UNCHANGED << api, rootVars, showPicker, files, searchQuery, selectedFiles, importing,
                    nextPageToken, batches, shown >>

\* handlePrevPage: the popped token as passed to fetchFiles (token || undefined).
PrevPageToken == OrElse(Last(prevTokens), Undefined)

HandlePrevPage ==
    /\ showPicker
    /\ Len(prevTokens) > 0
    /\ InFlight < MaxInFlight
    /\ prevTokens' = Front(prevTokens)
    /\ FetchFiles(PrevPageToken, searchQuery)
    /\ nav' = IF nav.stage = "next" THEN [nav EXCEPT !.stage = "prev"] ELSE NavIdle
    /\ lastOp' = <<"handlePrevPage">>
    /\ finished' = NoBatch
    /\ UNCHANGED << api, rootVars, showPicker, files, searchQuery, selectedFiles, importing,
                    nextPageToken, batches, shown >>

\* The continuation of fetchFiles when the i-th request in flight is answered.
DriveSettle(i, res) ==
    /\ showPicker
    /\ i \in 1..Len(driveReqs)
    /\ res \in DriveResponses(driveReqs[i])
    /\ LET params == driveReqs[i]
           out == ApiResult("listDriveFiles", res)
           \* the request of the handleNextPage under way is the one issued last
           mine == i = Len(driveReqs)
           \* a request issued after this one has been answered with a page
           late == i <= overtaken
       IN  /\ driveReqs' = RemoveAt(driveReqs, i)
           /\ loading' = FALSE
           /\ IF out.kind = "returned"
              THEN /\ files' = PageAfterAnswer(params, late).files
                   /\ nextPageToken' = PageAfterAnswer(params, late).nextPageToken
                   /\ shown' = [any |-> TRUE, pageToken |-> params.pageToken,
                                query |-> params.query]
                   /\ overtaken' = IF late THEN overtaken - 1 ELSE i - 1
                   /\ nav' = IF nav.stage # "next" THEN NavIdle
                             ELSE IF mine THEN [nav EXCEPT !.done = TRUE] ELSE nav
                   /\ lastOp' = <<"driveOk", IF late THEN "late" ELSE "inOrder">>
              ELSE /\ UNCHANGED << files, nextPageToken, shown >>
                   /\ overtaken' = IF late THEN overtaken - 1 ELSE overtaken
                   /\ nav' = IF nav.stage # "next" \/ mine THEN NavIdle ELSE nav
                   /\ lastOp' = <<"driveFailed">>
    /\ lastIssued' = <<>>
    /\ finished' = NoBatch
    /\ UNCHANGED << api, rootVars, showPicker, searchQuery, selectedFiles, importing,
                    prevTokens, batches >>

\* Variant: a selected file cannot be deselected.
ToggledAddOnly(sel, fileId) == sel \cup {fileId}

\* toggleSelect: the new selection set.
Toggled(sel, fileId) ==
    IF fileId \in sel THEN sel \ {fileId} ELSE sel \cup {fileId}

\* The checkbox of a listed file (the list shows only when not loading, folders
\* are not listed).
ToggleSelect(fileId) ==
    /\ showPicker
    /\ ~loading
    /\ fileId \in Range(files)
    /\ ~IsFolder(fileId)
    /\ selectedFiles' = Toggled(selectedFiles, fileId)
    /\ lastOp' = <<"toggleSelect", fileId>>
    /\ lastIssued' = <<>>
    /\ nav' = NavIdle
    /\ finished' = NoBatch
    /\ UNCHANGED << api, rootVars, showPicker, files, loading, searchQuery, importing,
                    nextPageToken, prevTokens, driveReqs, overtaken, batches, shown >>

(***************************************************************************)
(* Picker: the import batch (handleImport).                                *)
(***************************************************************************)
\* Variant: every file of the page is taken, selected or not.
FilesToImportWholePage == SelectSeq(files, LAMBDA f : ~IsFolder(f))

\* const filesToImport = files.filter((f) => selectedFiles.has(f.id))
FilesToImport == SelectSeq(files, LAMBDA f : f \in selectedFiles)

\* Variant: the button stays enabled while a batch runs.
ImportDisabledOnEmptyOnly == selectedFiles = {}

\* disabled={selectedFiles.size === 0 || importing} of the Import Selected button.
ImportDisabled == selectedFiles = {} \/ importing

\* if (errorCount > 0) alert(...)
AlertShown(errorCount) == errorCount > 0

\* Variant: the two counts are interchanged.
AlertMessageSwapped(successCount, errorCount) ==
    << "Imported ", errorCount, " file(s). ", successCount,
       " file(s) failed or already exist." >>

\* `Imported ${successCount} file(s). ${errorCount} file(s) failed or already exist.`
AlertMessage(successCount, errorCount) ==
    << "Imported ", successCount, " file(s). ", errorCount,
       " file(s) failed or already exist." >>

\* handleImport from the click to the first await: the early return on an empty
\* list, else setImporting(true) and the import call for the first file.
HandleImport ==
    /\ showPicker
    /\ ~ImportDisabled
    /\ IF FilesToImport = <<>>
       THEN UNCHANGED << importing, batches >>
       ELSE /\ InFlight < MaxInFlight
            /\ importing' = TRUE
            /\ batches' = Append(batches, NewBatch(FilesToImport))
    /\ finished' = NoBatch
    /\ lastOp' = <<"handleImport">>
    /\ lastIssued' = <<>>
    /\ nav' = NavIdle
    /\ UNCHANGED << api, rootVars, showPicker, files, loading, searchQuery, selectedFiles,
                    nextPageToken, prevTokens, driveReqs, overtaken, shown >>

\* The batch after the awaited import call of its current file has settled and
\* been counted (try: successCount++ / catch: errorCount++).
Counted(b, out) ==
    IF out.kind = "returned"
    THEN [b EXCEPT !.successCount = @ + 1,
                   !.trace = Append(@, <<"ok", b.files[b.idx]>>)]
    ELSE [b EXCEPT !.errorCount = @ + 1,
                   !.trace = Append(@, <<"failed", b.files[b.idx]>>)]

\* Variant: the first failure ends the loop.
MoreFilesUnlessFailed(b) == b.idx < Len(b.files) /\ b.errorCount = 0

\* for (const file of filesToImport): another file is left.
MoreFiles(b) == b.idx < Len(b.files)

\* The loop goes on: the import call for the next file.
NextIteration(b) ==
    [b EXCEPT !.idx = @ + 1, !.trace = Append(@, <<"call", b.files[b.idx + 1]>>)]

\* Variant: the root is not asked to refetch when nothing was imported.
AfterLoopRefreshOnSuccess(b) ==
    [b EXCEPT !.pc = "done",
              !.trace = @ \o (IF AlertShown(b.errorCount)
                              THEN << <<"alert", AlertMessage(b.successCount, b.errorCount)>> >>
                              ELSE <<>>)
                          \o (IF b.successCount > 0 THEN << <<"onImport">> >> ELSE <<>>)
                          \o << <<"onClose">> >>]

\* The loop is over: setImporting(false), the alert, onImport(), onClose().
AfterLoop(b) ==
    [b EXCEPT !.pc = "done",
              !.trace = @ \o (IF AlertShown(b.errorCount)
                              THEN << <<"alert", AlertMessage(b.successCount, b.errorCount)>> >>
                              ELSE <<>>)
                          \o << <<"onImport">>, <<"onClose">> >>]

\* The continuation of handleImport when the import call awaited by batch i
\* settles: count it, then either issue the next call or finish the run.  onClose
\* is the root's () => setShowPicker(false): it unmounts whichever picker instance
\* is mounted.
ImportSettle(i, res) ==
    /\ i \in 1..Len(batches)
    /\ batches[i].pc = "await"
    /\ LET b == Counted(batches[i], ApiResult("importFile", res))
       IN  IF MoreFiles(b)
           THEN /\ batches' = [batches EXCEPT ![i] = NextIteration(b)]
                /\ finished' = NoBatch
                /\ lastOp' = <<"importSettled">>
                /\ UNCHANGED << showPicker, files, loading, searchQuery, selectedFiles,
                                importing, nextPageToken, prevTokens, driveReqs, overtaken, shown,
                                nav >>
           ELSE /\ batches' = Detached(RemoveAt(batches, i))
                /\ finished' = AfterLoop(b)
                /\ showPicker' = FALSE
                /\ Unmount
                /\ lastOp' = <<"importFinished">>
    /\ lastIssued' = <<>>
    /\ UNCHANGED << api, rootVars >>

(***************************************************************************)
(* Specifications.                                                         *)
(***************************************************************************)
Next ==
    \/ OpenPicker
    \/ ClosePicker
    \/ \E q \in SearchTexts : SetSearchQuery(q)
    \/ HandleSearch
    \/ HandleNextPage
    \/ HandlePrevPage
    \/ \E i \in 1..MaxInFlight, res \in Responses : DriveSettle(i, res)
    \/ \E f \in DriveFileIds : ToggleSelect(f)
    \/ HandleImport
    \/ \E i \in 1..MaxInFlight, res \in Responses : ImportSettle(i, res)

Spec == Init /\ [][Next]_vars

NextApi ==
    \/ \E fn \in ApiFunctions : \E arg \in ApiArgs(fn) : ApiCall(fn, arg)
    \/ \E res \in Responses : ApiSettle(res)
    \/ ApiTaken

SpecApi == Init /\ [][NextApi]_vars

(***************************************************************************)
(* SpecRoot: the root component and its file cards.  The picker is seen    *)
(* from the root: the modal state, and the handleImport runs that hold the *)
(* root's fetchFiles as onImport and call it, then onClose, when they end. *)
(***************************************************************************)
\* The calls of the root and its children awaiting an answer.
RootInFlight ==
    (IF authCall THEN 1 ELSE 0) + Len(listCalls) + logoutCalls + loginCalls
        + Len(deletes) + Len(imports)

\* What the network can give the root's calls: a body with the endpoint's payload
\* comes with a 2xx status only.
RootResponses == { r \in Responses : r.body = "json" => r.ok }

\* The api function fetchFiles calls: searchQuery ? api.searchFiles(searchQuery)
\* : api.listFiles().
ListFunction(query) == IF Truthy(query) THEN "searchFiles" ELSE "listFiles"

\* The call one run of fetchFiles awaits, for the searchQuery of its closure.
ListCall(query) ==
    [fn |-> ListFunction(query),
     req |-> ApiRequest(ListFunction(query), [NoArg EXCEPT !.query = query])]

\* fetchFiles of the root up to its await, in the render whose searchQuery is query.
RootFetchFiles(query) ==
    /\ rootLoading' = TRUE
    /\ listCalls' = Append(listCalls, ListCall(query))
    /\ lastIssued' = << ListCall(query).req >>

\* The step is a user action.
UserActs == sinceMount' = [sinceMount EXCEPT !.acted = TRUE]

\* The step is not a user action: the list requests it issues are counted as long
\* as the user has not acted.
NoUserAct ==
    sinceMount' = IF sinceMount.acted THEN sinceMount
                  ELSE [sinceMount EXCEPT !.issued = @ + Len(lastIssued')]

\* const { authenticated } = <body>: the field of the status answer.
AuthField(out, says) ==
    IF out.value = "json" THEN (IF says THEN "true" ELSE "false") ELSE Undefined

\* Variant: the catch of checkAuth leaves the state alone.
AuthOnFailureKept == authenticated

\* checkAuth, catch: setAuthenticated(false).
AuthOnFailure == "false"

\* Variant: the list is fetched whatever the status answer says.
FetchesAfterAuthAlways(field) == TRUE

\* checkAuth: if (authenticated) { fetchFiles() } else { setLoading(false) }.
FetchesAfterAuth(field) == AuthTruthy(field)

\* checkAuth after `await api.getAuthStatus()`; says is the `authenticated` field
\* of a status body.  fetchFiles is the one of the mount render (searchQuery '').
CheckAuthSettle(res, says) ==
    /\ page = "app"
    /\ authCall
    /\ authCall' = FALSE
    /\ LET out == ApiResult("getAuthStatus", res)
       IN IF out.kind = "returned"
          THEN /\ authenticated' = AuthField(out, says)
               /\ IF FetchesAfterAuth(AuthField(out, says))
                  THEN /\ RootFetchFiles("")
                       /\ lastOp' = <<"checkAuth", "returned", "fetchFiles",
                                      AuthField(out, says)>>
                  ELSE /\ rootLoading' = FALSE
                       /\ lastOp' = <<"checkAuth", "returned", "done",
                                      AuthField(out, says)>>
                       /\ lastIssued' = <<>>
                       /\ UNCHANGED listCalls
          ELSE /\ authenticated' = AuthOnFailure
               /\ rootLoading' = FALSE
               /\ lastOp' = <<"checkAuth", "thrown", "caught", Undefined>>
               /\ lastIssued' = <<>>
               /\ UNCHANGED listCalls
    /\ NoUserAct
    /\ finished' = NoBatch
    /\ UNCHANGED << api, showPicker, files, loading, searchQuery, selectedFiles,
                    importing, nextPageToken, prevTokens, driveReqs, overtaken, batches, shown,
                    nav, rootFiles, rootSearchQuery, page, logoutCalls, loginCalls,
                    deletes, imports >>

\* const { files } = <body>: the field of the list answer.
FilesField(out, list) == IF out.value = "json" THEN Files(list) ELSE UndefinedFiles

\* fetchFiles: setFiles(files).
FilesAfterAnswer(field) == field

\* The render of the main screen reads files.length unless loading.
RenderThrows(a, l, f) == AuthTruthy(a) /\ ~l /\ ~f.defined

\* fetchFiles after its await, for the i-th run in flight; list is the `files`
\* field of a list body.
ListSettle(i, res, list) ==
    /\ page = "app"
    /\ i \in 1..Len(listCalls)
    /\ listCalls' = RemoveAt(listCalls, i)
    /\ LET out == ApiResult(listCalls[i].fn, res)
       IN IF out.kind = "returned"
          THEN /\ rootFiles' = FilesAfterAnswer(FilesField(out, list))
               /\ lastOp' = <<"fetchFiles", "returned", "done">>
          ELSE /\ UNCHANGED rootFiles
               /\ lastOp' = <<"fetchFiles", "thrown", "console">>
    /\ rootLoading' = FALSE
    /\ page' = IF RenderThrows(authenticated, FALSE, rootFiles') THEN "error" ELSE page
    /\ lastIssued' = <<>>
    /\ NoUserAct
    /\ finished' = NoBatch
    /\ UNCHANGED << api, showPicker, files, loading, searchQuery, selectedFiles,
                    importing, nextPageToken, prevTokens, driveReqs, overtaken, batches, shown,
                    nav, authenticated, rootSearchQuery, authCall, logoutCalls,
                    loginCalls, deletes, imports >>

\* The root's search input, onChange: setSearchQuery(e.target.value).
SetRootSearchQuery(q) ==
    /\ page = "app"
    /\ Screen = "main"
    /\ q # rootSearchQuery
    /\ rootSearchQuery' = q
    /\ UserActs
    /\ lastOp' = <<"setSearchQuery">>
    /\ lastIssued' = <<>>
    /\ finished' = NoBatch
    /\ UNCHANGED << api, showPicker, files, loading, searchQuery, selectedFiles,
                    importing, nextPageToken, prevTokens, driveReqs, overtaken, batches, shown,
                    nav, authenticated, rootFiles, rootLoading, page, authCall,
                    listCalls, logoutCalls, loginCalls, deletes, imports >>

\* handleSearch of the root: the form is submitted.
RootHandleSearch ==
    /\ page = "app"
    /\ Screen = "main"
    /\ RootInFlight < MaxInFlight
    /\ RootFetchFiles(rootSearchQuery)
    /\ UserActs
    /\ lastOp' = <<"handleSearch">>
    /\ finished' = NoBatch
    /\ UNCHANGED << api, showPicker, files, loading, searchQuery, selectedFiles,
                    importing, nextPageToken, prevTokens, driveReqs, overtaken, batches, shown,
                    nav, authenticated, rootFiles, rootSearchQuery, page, authCall,
                    logoutCalls, loginCalls, deletes, imports >>

\* handleLogin up to `await api.getAuthUrl()`.
HandleLogin ==
    /\ page = "app"
    /\ Screen = "login"
    /\ RootInFlight < MaxInFlight
    /\ loginCalls' = loginCalls + 1
    /\ UserActs
    /\ lastOp' = <<"handleLogin">>
    /\ lastIssued' = <<>>
    /\ finished' = NoBatch
    /\ UNCHANGED << api, showPicker, files, loading, searchQuery, selectedFiles,
                    importing, nextPageToken, prevTokens, driveReqs, overtaken, batches, shown,
                    nav, authenticated, rootFiles, rootLoading, rootSearchQuery,
                    page, authCall, listCalls, logoutCalls, deletes, imports >>

\* handleLogin after its await: window.location.href = auth_url, or the alert.
LoginSettle(res) ==
    /\ page = "app"
    /\ loginCalls > 0
    /\ loginCalls' = loginCalls - 1
    /\ LET out == ApiResult("getAuthUrl", res)
       IN IF out.kind = "returned"
          THEN /\ page' = IF out.value = "json" THEN "auth_url" ELSE Undefined
               /\ lastOp' = <<"handleLogin", "returned", "done">>
          ELSE /\ UNCHANGED page
               /\ lastOp' = <<"handleLogin", "thrown", "alert">>
    /\ lastIssued' = <<>>
    /\ NoUserAct
    /\ finished' = NoBatch
    /\ UNCHANGED << api, showPicker, files, loading, searchQuery, selectedFiles,
                    importing, nextPageToken, prevTokens, driveReqs, overtaken, batches, shown,
                    nav, authenticated, rootFiles, rootLoading, rootSearchQuery,
                    authCall, listCalls, logoutCalls, deletes, imports >>

\* handleLogout up to `await api.logout()`.
HandleLogout ==
    /\ page = "app"
    /\ Screen = "main"
    /\ RootInFlight < MaxInFlight
    /\ logoutCalls' = logoutCalls + 1
    /\ UserActs
    /\ lastOp' = <<"handleLogout">>
    /\ lastIssued' = <<>>
    /\ finished' = NoBatch
    /\ UNCHANGED << api, showPicker, files, loading, searchQuery, selectedFiles,
                    importing, nextPageToken, prevTokens, driveReqs, overtaken, batches, shown,
                    nav, authenticated, rootFiles, rootLoading, rootSearchQuery,
                    page, authCall, listCalls, loginCalls, deletes, imports >>

\* handleLogout after its await: the two setters; there is no try around the await,
\* so a rejection of api.logout() rejects the promise of handleLogout.
LogoutSettle(res) ==
    /\ page = "app"
    /\ logoutCalls > 0
    /\ logoutCalls' = logoutCalls - 1
    /\ LET out == ApiResult("logout", res)
       IN IF out.kind = "returned"
          THEN /\ authenticated' = "false"
               /\ rootFiles' = Files(<<>>)
               /\ lastOp' = <<"handleLogout", "returned", "done">>
          ELSE /\ UNCHANGED << authenticated, rootFiles >>
               /\ lastOp' = <<"handleLogout", "thrown", "unhandledrejection">>
    /\ lastIssued' = <<>>
    /\ NoUserAct
    /\ finished' = NoBatch
    /\ UNCHANGED << api, showPicker, files, loading, searchQuery, selectedFiles,
                    importing, nextPageToken, prevTokens, driveReqs, overtaken, batches, shown,
                    nav, rootLoading, rootSearchQuery, page, authCall, listCalls,
                    loginCalls, deletes, imports >>

\* What a fetch gave, as the caller of the API function can tell it apart.
Status(res) ==
    IF res.kind = "neterr" THEN "neterr" ELSE IF res.ok THEN "2xx" ELSE "non2xx"

\* Variant: the refresh is requested whatever the outcome of the call.
AfterDeleteAlways(out) ==
    IF out.kind = "returned"
    THEN << <<"onDelete">> >>
    ELSE << <<"onDelete">>, <<"alert">> >>

\* handleDelete after `await api.deleteFile(file.id)`: onDelete(), or the alert of
\* the catch.
AfterDelete(out) ==
    IF out.kind = "returned"
    THEN << <<"onDelete">> >>
    ELSE << <<"alert">> >>

\* The card of file id is on the screen.
CardShown(id) ==
    /\ Screen = "main"
    /\ ~rootLoading
    /\ rootFiles.defined
    /\ id \in Range(rootFiles.ids)

\* handleDelete of the card of file id, up to its await; confirmed is what
\* confirm() returns.
HandleDelete(id, confirmed) ==
    /\ page = "app"
    /\ CardShown(id)
    /\ IF confirmed
       THEN /\ RootInFlight < MaxInFlight
            /\ deletes' = Append(deletes, NewDelete(id))
            /\ finished' = NoBatch
            /\ lastOp' = <<"handleDelete", "await">>
       ELSE /\ UNCHANGED deletes
            /\ finished' = DeclinedDelete(id)
            /\ lastOp' = <<"handleDelete", "declined">>
    /\ UserActs
    /\ lastIssued' = <<>>
    /\ UNCHANGED << api, showPicker, files, loading, searchQuery, selectedFiles,
                    importing, nextPageToken, prevTokens, driveReqs, overtaken, batches, shown,
                    nav, authenticated, rootFiles, rootLoading, rootSearchQuery,
                    page, authCall, listCalls, logoutCalls, loginCalls, imports >>

\* handleDelete after its await, for the i-th run in flight.  onDelete is the
\* fetchFiles of the render in which the card was clicked.
DeleteSettle(i, res) ==
    /\ page = "app"
    /\ i \in 1..Len(deletes)
    /\ deletes' = RemoveAt(deletes, i)
    /\ LET d == deletes[i]
           out == ApiResult("deleteFile", res)
           trace == d.trace \o << <<"answer", Status(res)>> >> \o AfterDelete(out)
       IN /\ finished' = [d EXCEPT !.trace = trace]
          /\ IF \E k \in 1..Len(trace) : trace[k] = <<"onDelete">>
             THEN RootFetchFiles(d.onDelete)
             ELSE /\ lastIssued' = <<>>
                  /\ UNCHANGED << rootLoading, listCalls >>
          /\ lastOp' = <<"handleDelete", out.kind,
                         IF out.kind = "returned" THEN "done" ELSE "alert">>
    /\ NoUserAct
    /\ UNCHANGED << api, showPicker, files, loading, searchQuery, selectedFiles,
                    importing, nextPageToken, prevTokens, driveReqs, overtaken, batches, shown,
                    nav, authenticated, rootFiles, rootSearchQuery, page, authCall,
                    logoutCalls, loginCalls, imports >>

\* The Import buttons of the main screen: setShowPicker(true).
RootOpenPicker ==
    /\ page = "app"
    /\ Screen = "main"
    /\ ~showPicker
    /\ showPicker' = TRUE
    /\ UserActs
    /\ lastOp' = <<"setShowPicker", "true">>
    /\ lastIssued' = <<>>
    /\ finished' = NoBatch
    /\ UNCHANGED << api, files, loading, searchQuery, selectedFiles, importing,
                    nextPageToken, prevTokens, driveReqs, overtaken, batches, shown, nav,
                    authenticated, rootFiles, rootLoading, rootSearchQuery, page,
                    authCall, listCalls, logoutCalls, loginCalls, deletes, imports >>

\* The picker is rendered: showPicker && <DriveFilePicker .../> on the main screen.
PickerRendered == Screen = "main" /\ showPicker

\* onClose of the picker, from its close and Cancel buttons: setShowPicker(false).
RootClosePicker ==
    /\ page = "app"
    /\ PickerRendered
    /\ showPicker' = FALSE
    /\ UserActs
    /\ lastOp' = <<"setShowPicker", "false">>
    /\ lastIssued' = <<>>
    /\ finished' = NoBatch
    /\ UNCHANGED << api, files, loading, searchQuery, selectedFiles, importing,
                    nextPageToken, prevTokens, driveReqs, overtaken, batches, shown, nav,
                    authenticated, rootFiles, rootLoading, rootSearchQuery, page,
                    authCall, listCalls, logoutCalls, loginCalls, deletes, imports >>

\* A handleImport run of the rendered picker starts: it holds the onImport prop of
\* that render, the root's fetchFiles with the searchQuery of that render.
ImportStarts ==
    /\ page = "app"
    /\ PickerRendered
    /\ RootInFlight < MaxInFlight
    /\ imports' = Append(imports, rootSearchQuery)
    /\ UserActs
    /\ lastOp' = <<"handleImport", "await">>
    /\ lastIssued' = <<>>
    /\ finished' = NoBatch
    /\ UNCHANGED << api, showPicker, files, loading, searchQuery, selectedFiles,
                    importing, nextPageToken, prevTokens, driveReqs, overtaken, batches, shown,
                    nav, authenticated, rootFiles, rootLoading, rootSearchQuery,
                    page, authCall, listCalls, logoutCalls, loginCalls, deletes >>

\* The i-th handleImport run ends: onImport(), then onClose().
ImportEnds(i) ==
    /\ page = "app"
    /\ i \in 1..Len(imports)
    /\ imports' = RemoveAt(imports, i)
    /\ RootFetchFiles(imports[i])
    /\ showPicker' = FALSE
    /\ NoUserAct
    /\ lastOp' = <<"handleImport", "returned", "done">>
    /\ finished' = NoBatch
    /\ UNCHANGED << api, files, loading, searchQuery, selectedFiles, importing,
                    nextPageToken, prevTokens, driveReqs, overtaken, batches, shown, nav,
                    authenticated, rootFiles, rootSearchQuery, page, authCall,
                    logoutCalls, loginCalls, deletes >>

NextRoot ==
    \/ \E res \in RootResponses, says \in BOOLEAN : CheckAuthSettle(res, says)
    \/ \E i \in 1..MaxInFlight, res \in RootResponses, list \in FileLists :
            ListSettle(i, res, list)
    \/ \E q \in RootTexts : SetRootSearchQuery(q)
    \/ RootHandleSearch
    \/ HandleLogin
    \/ \E res \in RootResponses : LoginSettle(res)
    \/ HandleLogout
    \/ \E res \in RootResponses : LogoutSettle(res)
    \/ \E id \in {7, 42}, confirmed \in BOOLEAN : HandleDelete(id, confirmed)
    \/ \E i \in 1..MaxInFlight, res \in RootResponses : DeleteSettle(i, res)
    \/ RootOpenPicker
    \/ RootClosePicker
    \/ ImportStarts
    \/ \E i \in 1..MaxInFlight : ImportEnds(i)

SpecRoot == InitRoot /\ [][NextRoot]_vars

(***************************************************************************)
(* Properties.                                                             *)
(***************************************************************************)
\* Events of a batch trace.
IsCall(ev) == ev[1] = "call"

IsSettle(ev) == ev[1] \in {"ok", "failed"}

IsOk(ev) == ev[1] = "ok"

IsFailed(ev) == ev[1] = "failed"

IsAlert(ev) == ev[1] = "alert"

IsOnImport(ev) == ev[1] = "onImport"

IsOnClose(ev) == ev[1] = "onClose"

\* The file ids of the import calls of a trace, in call order.
CallsOf(trace) ==
    [k \in 1..Len(SelectSeq(trace, IsCall)) |-> SelectSeq(trace, IsCall)[k][2]]

Count(trace, Test(_)) == Len(SelectSeq(trace, Test))

\* The import calls of a trace that have not settled yet.
Outstanding(trace) == Count(trace, IsCall) - Count(trace, IsSettle)

AttachedBatches == { i \in 1..Len(batches) : batches[i].attached }

\* C1 (as claimed): a call of an API client function that returns a value to its
\* caller has received a 2xx response; on any other response it throws.
C1_ReturnsOnlyOn2xx ==
    (api.pc = "done" /\ api.out.kind = "returned")
        => (api.res.kind = "http" /\ api.res.ok)

\* C2 (as claimed): at most one import request is outstanding at any time.
C2_OneImportOutstanding ==
    Len(batches) <= 1

\* C2 (amended): among the batches of the mounted picker instance at most one
\* import request is outstanding at any time: the instance has at most one running
\* batch, it has one only while importing is true, and every running batch awaits
\* exactly one call, each call but the first issued right after the previous call
\* of the batch has settled.
C2_OneImportOutstandingPerInstance ==
    /\ Cardinality(AttachedBatches) <= 1
    /\ AttachedBatches # {} => (showPicker /\ importing)
    /\ \A i \in 1..Len(batches) :
          LET t == batches[i].trace
          IN  /\ Outstanding(t) = 1
              /\ \A k \in 2..Len(t) : IsCall(t[k]) => IsSettle(t[k - 1])

\* C2 witness: the mounted instance's batch awaits its second call while the batch
\* of an earlier instance is still running.
C2_Witness ==
    \E i, j \in 1..Len(batches) :
        /\ batches[i].attached /\ batches[i].idx = 2
        /\ ~batches[j].attached

\* C3: a failed import never aborts the batch: the import calls of a running batch
\* are those of its files up to the current one, once each and in order, and a
\* batch that has ended has called every one of its files exactly once and
\* successCount + errorCount is the number of its files.
C3_EveryFileCalledOnce ==
    /\ \A i \in 1..Len(batches) :
          CallsOf(batches[i].trace) = SubSeq(batches[i].files, 1, batches[i].idx)
    /\ finished.pc = "done" =>
          /\ CallsOf(finished.trace) = finished.files
          /\ finished.successCount + finished.errorCount = Len(finished.files)
          /\ Count(finished.trace, IsSettle) = Len(finished.files)

\* C3 witness: a batch of two files has ended whose first import failed.
C3_Witness ==
    /\ finished.pc = "done"
    /\ Len(finished.files) = 2
    /\ IsFailed(finished.trace[2])

\* C4 (as claimed): when handleImport runs, an import call is issued for every
\* file identifier in the selection set: a batch starts whose files are the
\* selection set.
C4_ImportsWholeSelection ==
    lastOp[1] = "handleImport" =>
        \E i \in 1..Len(batches) :
            /\ batches[i].attached
            /\ Range(batches[i].files) = selectedFiles

\* C5: a batch that ends with at least one failed import shows exactly one alert,
\* 'Imported s file(s). e file(s) failed or already exist.' with s the number of
\* its import calls that succeeded and e the number that failed; a batch that ends
\* without a failed import shows none.
C5_AlertReportsCounts ==
    finished.pc = "done" =>
        LET s == Count(finished.trace, IsOk)
            e == Count(finished.trace, IsFailed)
            alerts == SelectSeq(finished.trace, IsAlert)
        IN  IF e > 0
            THEN alerts = << <<"alert", << "Imported ", s, " file(s). ", e,
                                            " file(s) failed or already exist." >> >> >>
            ELSE alerts = <<>>

\* C5 witness: a batch of two files ended with one import succeeded and one failed.
C5_Witness ==
    /\ finished.pc = "done"
    /\ Count(finished.trace, IsOk) = 1
    /\ Count(finished.trace, IsFailed) = 1

FirstPage(pg) == pg.any /\ pg.pageToken = Undefined

\* C7 (as claimed): a handlePrevPage that follows a handleNextPage whose fetch has
\* been answered with a page issues a list request carrying the token with which
\* the page displayed before the handleNextPage was fetched (no token exactly when
\* that page was the first page).
C7_PrevRefetchesPageLeft ==
    (lastOp[1] = "handlePrevPage" /\ nav.stage = "prev" /\ nav.done /\ nav.left.any)
        => Last(driveReqs).pageToken = nav.left.pageToken

\* C8: starting on the first page with an empty history stack, a handleNextPage
\* followed by a handlePrevPage issues exactly one list request, which carries no
\* page token, and leaves the history stack empty (Previous disabled).
C8_NextPrevFromFirstPage ==
    (lastOp[1] = "handlePrevPage" /\ nav.stage = "prev" /\ nav.depth = 0
        /\ FirstPage(nav.left))
        => /\ Len(lastIssued) = 1
           /\ lastIssued[1].pageToken = Undefined
           /\ Last(driveReqs).pageToken = Undefined
           /\ prevTokens = <<>>

\* C8 witness: the handlePrevPage has run after the fetch of the handleNextPage
\* was answered with the second page.
C8_Witness ==
    /\ lastOp[1] = "handlePrevPage"
    /\ nav.stage = "prev" /\ nav.depth = 0 /\ FirstPage(nav.left) /\ nav.done
    /\ shown.pageToken = "a1"

\* C9: handleSearch, whatever page is shown and whatever the history stack holds,
\* empties the history stack and issues exactly one list request, which carries no
\* page token and the current search text (no query parameter for an empty text).
C9_SearchResetsPagination ==
    lastOp[1] = "handleSearch" =>
        /\ prevTokens = <<>>
        /\ lastIssued = << [pageToken |-> Undefined, query |-> searchQuery] >>
        /\ Len(driveReqs) = nav.reqs + 1
        /\ Last(driveReqs).pageToken = Undefined
        /\ Last(driveReqs).query = (IF searchQuery = "" THEN Undefined ELSE searchQuery)

\* C9 witness: handleSearch has run with text "q" while the third page was shown
\* and the history stack held two entries.
C9_Witness ==
    /\ lastOp[1] = "handleSearch"
    /\ nav.stage = "search" /\ nav.depth = 2
    /\ nav.left.pageToken = "a2"
    /\ searchQuery = "q"

\* C10: a step that runs toggleSelect(f) flips the membership of f in the selection
\* set and of no other identifier, and every step that changes the selection set
\* runs toggleSelect or closes the modal.
C10_SelectionFrame ==
    [][ /\ lastOp'[1] = "toggleSelect" =>
              selectedFiles' = (selectedFiles \ {lastOp'[2]})
                                   \cup ({lastOp'[2]} \ selectedFiles)
        /\ selectedFiles' # selectedFiles =>
              \/ lastOp'[1] = "toggleSelect"
              \/ (showPicker /\ ~showPicker') ]_vars

\* C10 witness: with a file selected and an import batch of the instance running,
\* a list request issued by a page navigation has been answered.
C10_Witness ==
    /\ selectedFiles # {}
    /\ AttachedBatches # {}
    /\ lastOp[1] = "driveOk"
    /\ shown.pageToken # Undefined

(***************************************************************************)
(* Root component: authentication, file list, logout, delete.              *)
(***************************************************************************)
\* C11: the root starts on the 'checking' screen (authenticated null) with its one
\* auth-status call in flight; it leaves that screen in the step in which that
\* call settles and in no other step: to the main screen when the answer says
\* authenticated: true, to the login screen when it says false or the call fails;
\* no further auth-status call is issued and the state never becomes null again.
C11_LeavesCheckingOnce ==
    /\ authenticated = "null"
    /\ authCall = TRUE
    /\ [][ /\ authCall' => authCall /\ authenticated' = "null"
           /\ authenticated # "null" => authenticated' # "null"
           /\ (authenticated = "null" /\ authenticated' # "null") =>
                 /\ authCall /\ ~authCall'
                 /\ lastOp'[1] = "checkAuth"
           /\ (authCall /\ ~authCall') =>
                 Screen' = IF lastOp'[2] = "returned" /\ lastOp'[4] = "true"
                           THEN "main" ELSE "login" ]_vars

\* C11 witness: the status call was answered authenticated: true, and a later
\* logout has brought the root to the login screen.
C11_Witness ==
    /\ lastOp = <<"handleLogout", "returned", "done">>
    /\ sinceMount.issued = 1
    /\ Screen = "login"
    /\ ~authCall

\* C12: as long as the user has not acted since the mount, no list request is
\* issued while the auth-status call is unanswered; the answer authenticated: true
\* issues exactly one request, GET /files, in the step that takes the answer, and
\* no other is issued afterwards; the answer false or a failed call issues none.
C12_OneListAfterAuth ==
    ~sinceMount.acted =>
        /\ authCall => listCalls = <<>> /\ sinceMount.issued = 0
        /\ ~authCall =>
              sinceMount.issued = (IF authenticated = "true" THEN 1 ELSE 0)
        /\ Len(listCalls) <= sinceMount.issued
        /\ \A i \in 1..Len(listCalls) :
              listCalls[i].req = [method |-> "GET", path |-> <<"/api", "files">>,
                                  params |-> NoArg]
        /\ lastOp[1] = "checkAuth" =>
              lastIssued = (IF authenticated = "true" THEN << listCalls[1].req >>
                            ELSE <<>>)

\* C12 witness: the status answer was authenticated: true, the one list request
\* has been answered, and the user has not acted.
C12_Witness ==
    /\ ~sinceMount.acted
    /\ sinceMount.issued = 1
    /\ lastOp = <<"fetchFiles", "returned", "done">>
    /\ listCalls = <<>>

\* C13: in the state reached by the continuation of handleLogout, that is once
\* api.logout() has settled either way, the root shows the login screen and its
\* file list is empty.
C13_LogoutResetsOnceSettled ==
    (Len(lastOp) = 3 /\ lastOp[1] = "handleLogout") =>
        /\ Screen = "login"
        /\ rootFiles = Files(<<>>)

\* C14: no continuation of a handler of the root or of a file card ends with the
\* rejection of its network call escaping the handler.
C14_NoRejectionEscapes ==
    (Len(lastOp) >= 3 /\ lastOp[2] = "thrown") =>
        lastOp[3] \in {"caught", "console", "alert"}

\* The request DELETE /api/files/<id>.
DeleteRequest(id) ==
    [method |-> "DELETE", path |-> <<"/api", "files">>, params |-> [NoArg EXCEPT !.id = id]]

\* C15: a handleDelete run whose confirm() is declined ends there, with no request
\* and no onDelete; a run whose confirm() is accepted issues exactly one request,
\* DELETE /api/files/<id> for the id of its card, and, once that is answered,
\* invokes onDelete exactly once and shows no alert when the answer is 2xx, and
\* shows the alert and does not invoke onDelete otherwise.
C15_ConfirmDeleteRefresh ==
    /\ \A i \in 1..Len(deletes) :
          deletes[i].trace = << <<"confirm", TRUE>>,
                                <<"call", DeleteRequest(deletes[i].id)>> >>
    /\ lastOp = <<"handleDelete", "declined">> =>
          /\ finished.trace = << <<"confirm", FALSE>> >>
          /\ lastIssued = <<>>
    /\ (Len(lastOp) = 3 /\ lastOp[1] = "handleDelete") =>
          /\ Len(finished.trace) = 4
          /\ SubSeq(finished.trace, 1, 2) =
                << <<"confirm", TRUE>>, <<"call", DeleteRequest(finished.id)>> >>
          /\ finished.trace[3][1] = "answer"
          /\ finished.trace[4] =
                (IF finished.trace[3][2] = "2xx" THEN <<"onDelete">> ELSE <<"alert">>)
          /\ Len(lastIssued) = (IF finished.trace[3][2] = "2xx" THEN 1 ELSE 0)

\* C15 witness: the delete of file 42 was confirmed and answered 2xx while another
\* delete is still awaiting its answer.
C15_Witness ==
    /\ lastOp = <<"handleDelete", "returned", "done">>
    /\ finished.id = 42
    /\ deletes # <<>>

\* The one request a run of fetchFiles is to issue for a search text.
ExpectedListRequest(text) ==
    IF text = ""
    THEN [method |-> "GET", path |-> <<"/api", "files">>, params |-> NoArg]
    ELSE [method |-> "GET", path |-> <<"/api", "files", "search">>,
          params |-> [NoArg EXCEPT !.query = EncodeURIComponent(text)]]

\* The last step ran the root's fetchFiles: from checkAuth, from handleSearch, as
\* onDelete of a file card or as onImport of the picker.
RanFetchFiles ==
    \/ (Len(lastOp) = 4 /\ lastOp[1] = "checkAuth" /\ lastOp[3] = "fetchFiles")
    \/ lastOp = <<"handleSearch">>
    \/ lastOp = <<"handleDelete", "returned", "done">>
    \/ lastOp = <<"handleImport", "returned", "done">>

\* C16: a step that runs the root's fetchFiles issues exactly one request, the
\* search request for the text the search box holds (URL-encoded) when that text
\* is not empty and the plain list request when it is.
C16_FetchUsesCurrentText ==
    RanFetchFiles => lastIssued = << ExpectedListRequest(rootSearchQuery) >>

(***************************************************************************)
(* Picker: overlapping list requests.                                      *)
(***************************************************************************)
\* C17: in the state reached by a successful answer to a list request of the
\* picker, the files displayed and the next-page token are those of that answer,
\* also when the request was issued before another one that has been answered
\* already.
C17_LastResponseWins ==
    lastOp[1] = "driveOk" =>
        /\ shown.any
        /\ files = DriveAnswer(shown).files
        /\ nextPageToken = DriveAnswer(shown).nextPageToken

\* C17 witness: two list requests were in flight, the search for "q" issued last
\* was answered first, and the answer to the older request, the first page of the
\* listing without query, has arrived after it.
C17_Witness ==
    /\ lastOp = <<"driveOk", "late">>
    /\ driveReqs = <<>>
    /\ searchQuery = "q"
    /\ shown.query = Undefined
    /\ files = <<1>>

\* C18: the loading flag of the picker is true whenever a list request of the
\* mounted picker is in flight, and the loading flag of the root is true whenever
\* a list request of the root is in flight.
C18_LoadingWhileInFlight ==
    /\ driveReqs # <<>> => loading
    /\ listCalls # <<>> => rootLoading

\* The position of a page in its listing: 1 for the first page.
PageIndex(pg) == IF pg.pageToken = Undefined THEN 1 ELSE TokenIndex(pg.pageToken)

\* C19: whenever the picker shows a page and none of its list requests is in
\* flight, the history stack holds as many entries as the page shown lies past
\* the first page of its listing.
C19_HistoryMatchesPage ==
    (showPicker /\ shown.any /\ driveReqs = <<>>) =>
        Len(prevTokens) = PageIndex(shown) - 1

(***************************************************************************)
(* Root: logout against the fetches in flight.                             *)
(***************************************************************************)
\* C20: whenever the root shows the login screen, its file list is empty.
C20_NoFilesWhenSignedOut ==
    Screen = "login" => rootFiles = Files(<<>>)

(***************************************************************************)
(* Picker: the batch against what goes on around it.                       *)
(***************************************************************************)
\* The files of the running batches, in start order.
BatchFiles(bs) == [i \in 1..Len(bs) |-> bs[i].files]

\* list holds exactly the files of page pg whose ids are in sel, in page order.
SelectedOfPage(list, pg, sel) ==
    /\ Range(list) = Range(pg) \cap sel
    /\ \A i, j \in 1..Len(list) :
          i < j => \E k, l \in 1..Len(pg) : k < l /\ pg[k] = list[i] /\ pg[l] = list[j]

\* The calls made so far by a run are the first files of its list, in list order.
CallsFollow(b) ==
    /\ Len(CallsOf(b.trace)) <= Len(b.files)
    /\ CallsOf(b.trace) = SubSeq(b.files, 1, Len(CallsOf(b.trace)))

C22_TokenWithItsQuery ==
    (/\ lastOp[1] \in {"handleNextPage", "handlePrevPage"}
     /\ Last(driveReqs).pageToken # Undefined) =>
        Last(driveReqs).query = shown.query

\* A run that goes on: it awaits exactly one import call, having called the first
\* files of its list in order.
GoesOn(b) ==
    /\ b.pc = "await"
    /\ Outstanding(b.trace) = 1
    /\ CallsFollow(b)

\* A run that has ended: every file of its list was called and has settled, and
\* the run ended with onImport() and then onClose().
EndedInFull(b) ==
    /\ CallsOf(b.trace) = b.files
    /\ Count(b.trace, IsSettle) = Len(b.files)
    /\ Len(b.trace) >= 2
    /\ b.trace[Len(b.trace) - 1] = <<"onImport">>
    /\ b.trace[Len(b.trace)] = <<"onClose">>

\* C23: a step that closes the picker leaves every running batch running, only
\* detached from the instance; a batch leaves the running ones only by ending; a
\* batch without its picker still awaits one import call at a time down its list,
\* and when its last call has settled it ends with onImport() and onClose(), which
\* leaves the picker closed.
C23_CloseDoesNotStopBatch ==
    [][ /\ (showPicker /\ lastOp'[1] = "onClose") =>
              /\ Len(batches') = Len(batches)
              /\ \A i \in 1..Len(batches) :
                    batches'[i] = [batches[i] EXCEPT !.attached = FALSE]
        /\ Len(batches') < Len(batches) =>
              /\ lastOp'[1] = "importFinished"
              /\ Len(batches') = Len(batches) - 1
        /\ \A i \in 1..Len(batches') :
              ~batches'[i].attached => GoesOn(batches'[i])
        /\ (lastOp'[1] = "importFinished" /\ ~finished'.attached) =>
              /\ EndedInFull(finished')
              /\ ~showPicker' ]_vars

\* C23 witness: a batch of files 1 and 2 whose picker was closed while it ran has
\* ended, both calls settled, and the picker is closed.
C23_Witness ==
    /\ lastOp[1] = "importFinished"
    /\ ~finished.attached
    /\ finished.files = <<1, 2>>
    /\ ~showPicker

====
